---- MODULE Spec2Model ----
(***************************************************************************)
(* The in-memory record store of protol (LocalStore) and its reputation    *)
(* engine: five dimension scorers, the aggregator, the tier mapping and    *)
(* the trend, recomputed after every write for the written agent.          *)
(*                                                                         *)
(* Numbers.  The code computes in binary floating point.  Here a score is  *)
(* a fixed-point integer in thousandths of a point (100.0 is 100000), a    *)
(* cost is an integer number of cents, a mean cost is in hundredths of a   *)
(* cent, a self-reported confidence is in hundredths (1.0 is 100).  Every  *)
(* division rounds to the nearest unit, as a float division rounds to the  *)
(* nearest float.  round(x, 2) rounds a score to a multiple of 10          *)
(* thousandths, ties to even.  None is the integer NONE.                   *)
(*                                                                         *)
(* Identifiers.  _random_id draws eight random characters; the draws are   *)
(* taken to be pairwise distinct and an agent is named by the order of     *)
(* its registration, an action by its position in the agent's list.        *)
(***************************************************************************)
EXTENDS Integers, Sequences, FiniteSets, TLC

\* ------------------------------------------------------------------------
\* Bounds of the model
\* ------------------------------------------------------------------------
MaxAgents == 2

MaxActions == 2

MaxIncidents == 2
MaxTime == 1
MaxThreads == 2

AgentIds == 1..MaxAgents

NONE == -1

\* two of the fourteen VALID_AGENT_CATEGORIES
Categories == {"research", "coding"}

\* a PATCH /agents/{id} payload whose category is None
NoCategory == "None"

\* the least and the greatest of VALID_SEVERITY_LEVELS (low, medium, high, critical)
Severities == {"low", "critical"}

\* payloads of POST /agents/{id}/actions that pass ActionRecord validation
ActionInputs ==
    { [status |-> "success", cost_usd |-> 1,    self_reported_confidence |-> 90,
       input_hash |-> TRUE,  output_hash |-> TRUE],
      [status |-> "success", cost_usd |-> 100,  self_reported_confidence |-> 50,
       input_hash |-> FALSE, output_hash |-> TRUE],
      [status |-> "partial", cost_usd |-> 0,    self_reported_confidence |-> NONE,
       input_hash |-> FALSE, output_hash |-> FALSE],
      [status |-> "failed",  cost_usd |-> 100,  self_reported_confidence |-> NONE,
       input_hash |-> FALSE, output_hash |-> FALSE] }

\* ratings that pass ActionRating validation (1..5)
Ratings == {5}

VARIABLES
    agents,      \* LocalStore._agents: agent_id -> profile
    actions,     \* LocalStore._actions: agent_id -> list of actions
    incidents,   \* LocalStore._incidents: agent_id -> list of incidents
    response,    \* what the last call returned or raised
    tierArg,     \* argument of a direct call of _score_to_tier
    tierRes,     \* its result
    relArg,      \* action list of a direct call of _compute_reliability
    relRes,      \* its result
    act,         \* an Action object: its fields, its caller's last call on it
    now,         \* the clock _now_iso reads
    threads,     \* threads calling one store: where each is in its call, its locals
    crew,        \* a CrewAIWrapper.kickoff call: its position and its locals
    req,         \* an HttpClient._request call: its position, what it has received
    stream       \* a generator of LangChainWrapper.stream: its position and its locals

vars == <<agents, actions, incidents, response, tierArg, tierRes, relArg, relRes, act, now,
          threads, crew, req, stream>>

\* the variables of the direct calls of the pure functions
direct == <<tierArg, tierRes, relArg, relRes>>

\* what no handler of the store touches
\* what the Action steps leave alone
aside == <<direct, now, threads, crew, req, stream>>

outside == <<aside, act>>

store == <<agents, actions, incidents>>

\* ------------------------------------------------------------------------
\* Arithmetic
\* ------------------------------------------------------------------------
Min(a, b) == IF a < b THEN a ELSE b

Max(a, b) == IF a > b THEN a ELSE b

\* a / b rounded to the nearest integer (a >= 0, b > 0)
DivRound(a, b) == (2 * a + b) \div (2 * b)

RECURSIVE SqrtSearch(_, _, _)
SqrtSearch(n, lo, hi) ==
    IF lo >= hi THEN lo
    ELSE LET mid == (lo + hi + 1) \div 2
         IN  IF mid * mid <= n THEN SqrtSearch(n, mid, hi)
             ELSE SqrtSearch(n, lo, mid - 1)

\* math.sqrt on integers: the largest r with r*r <= n
ISqrt(n) == SqrtSearch(n, 0, Min(n, 46340))

RECURSIVE SeqSum(_)
SeqSum(s) == IF s = <<>> THEN 0 ELSE Head(s) + SeqSum(Tail(s))

\* statistics.mean of a non-empty list, in hundredths of the list's unit
Mean100(s) == DivRound(SeqSum(s) * 100, Len(s))

Sq(x) == x * x

\* the largest digit d with (10 * r + d)^2 <= 100 * r^2 + rem
RECURSIVE SqrtDigit(_, _, _)
SqrtDigit(r, rem, d) ==
    IF d = 0 \/ 20 * r * d + d * d <= rem THEN d ELSE SqrtDigit(r, rem, d - 1)

\* statistics.stdev of a list of two or more confidences (hundredths),
\* sqrt(sum((x - mean)^2) / (n - 1)), times 200 and in thousandths of a point:
\* the integer part of 2000 * sqrt(num / den), its last digit found from the
\* root of the hundredth part; 100 points or more are returned as 100
StdevTimes200(s) ==
    LET n    == Len(s)
        num  == n * SeqSum([i \in 1..n |-> Sq(s[i])]) - Sq(SeqSum(s))
        den  == n * (n - 1)
        hi   == (40000 * num) \div den
        lo   == (100 * ((40000 * num) % den)) \div den
        r    == ISqrt(hi)
    IN  IF num >= 2500 * den THEN 100000
        ELSE 10 * r + SqrtDigit(r, 100 * (hi - r * r) + lo, 9)

\* round(x, 2) of a score in thousandths
Round2(x) ==
    LET q == x \div 10
        r == x % 10
    IN  IF r < 5 THEN 10 * q
        ELSE IF r > 5 THEN 10 * (q + 1)
        ELSE IF q % 2 = 0 THEN 10 * q ELSE 10 * (q + 1)

\* max(0.0, min(100.0, x))
Clamp(x) == Max(0, Min(100000, x))

\* ------------------------------------------------------------------------
\* Reputation scoring: the five dimension scorers
\* ------------------------------------------------------------------------
IsSuccess(a) == a.status \in {"success", "partial"}

HasConfidence(a) == a.self_reported_confidence # NONE

IsCosted(a) == a.cost_usd # NONE /\ IsSuccess(a)

CostOf(a) == a.cost_usd

ConfidenceOf(a) == a.self_reported_confidence

\* the confidence reaching 1.0 at 10000 actions: min(1.0, math.sqrt(total) / 100)
ConfidenceSlow(total) ==
    IF total >= 10000 THEN 10000 ELSE Min(10000, ISqrt(total * 10000))

\* confidence = min(1.0, math.sqrt(total) / 10), in ten-thousandths
Confidence(total) == IF total >= 100 THEN 10000 ELSE Min(10000, ISqrt(total * 1000000))

ComputeReliability(acts) ==
    LET total == Len(acts)
    IN  IF total = 0 THEN 50000
        ELSE LET successes  == Len(SelectSeq(acts, IsSuccess))
                 raw_rate   == DivRound(successes * 100000, total)
                 confidence == Confidence(total)
             IN  DivRound(50000 * (10000 - confidence) + raw_rate * confidence, 10000)

\* the weight table with low incidents weighing nothing
SeverityWeightsLowFree(sev) ==
    CASE sev = "low"      -> 0
      [] sev = "medium"   -> 3
      [] sev = "high"     -> 7
      [] sev = "critical" -> 15
      [] OTHER            -> 0

severity_weights(sev) ==
    CASE sev = "low"      -> 1
      [] sev = "medium"   -> 3
      [] sev = "high"     -> 7
      [] sev = "critical" -> 15
      [] OTHER            -> 1

SeverityWeightOf(inc) == severity_weights(inc.severity)

\* raw = 100.0 - (weighted_score / total_actions) * 10.0
ComputeSafetyUnclamped(acts, incs) ==
    LET total_actions  == Max(Len(acts), 1)
        weighted_score == SeqSum([i \in 1..Len(incs) |-> SeverityWeightOf(incs[i])])
    IN  100000 - DivRound(weighted_score * 10000, total_actions)

\* the safety score returned without the clamp
ComputeSafetyNoClamp(acts, incs) == ComputeSafetyUnclamped(acts, incs)

ComputeSafety(acts, incs) == Clamp(ComputeSafetyUnclamped(acts, incs))

ComputeConsistency(acts) ==
    LET reporting   == SelectSeq(acts, HasConfidence)
        confidences == [i \in 1..Len(reporting) |-> ConfidenceOf(reporting[i])]
    IN  IF Len(confidences) < 2 THEN 50000
        ELSE LET stddev200 == StdevTimes200(confidences)
                 raw       == Max(0, 100000 - stddev200)
             IN  Clamp(raw)

\* the costs of an agent's success/partial actions that carry a cost
CostsOf(acts) ==
    LET costed == SelectSeq(acts, IsCosted)
    IN  [i \in 1..Len(costed) |-> CostOf(costed[i])]

\* the peer loop without its category filter
CategoryPeersAnyCategory(ag, acts, category) ==
    { aid \in DOMAIN ag : CostsOf(acts[aid]) # <<>> }

\* the agents the loop over self._agents.items() keeps: same category and
\* at least one costed success/partial action (the scored agent included)
CategoryPeers(ag, acts, category) ==
    { aid \in DOMAIN ag : ag[aid].category = category /\ CostsOf(acts[aid]) # <<>> }

RECURSIVE SumOver(_, _)
SumOver(f, S) ==
    IF S = {} THEN 0
    ELSE LET x == CHOOSE y \in S : TRUE IN f[x] + SumOver(f, S \ {x})

\* the formula with the ratio's sign turned: 50 + 50 * (agent_avg / category_avg - 1)
EfficiencyFormulaInverted(agent_avg, category_avg) ==
    IF agent_avg >= 2 * category_avg THEN 100000
    ELSE Clamp(DivRound(50000 * agent_avg, category_avg))

\* 50 + 50 * (1 - agent_avg / category_avg), clamped; a ratio of 2 or more
\* is below 0 before the clamp and is not divided out
EfficiencyFormula(agent_avg, category_avg) ==
    IF agent_avg >= 2 * category_avg THEN 0
    ELSE Clamp(50000 + 50000 - DivRound(50000 * agent_avg, category_avg))

ComputeEfficiency(ag, acts, agent_id) ==
    LET category    == ag[agent_id].category
        agent_costs == CostsOf(acts[agent_id])
    IN  IF agent_costs = <<>> THEN 50000
        ELSE LET agent_avg      == Mean100(agent_costs)
                 peers          == CategoryPeers(ag, acts, category)
                 category_costs == [aid \in peers |-> Mean100(CostsOf(acts[aid]))]
             IN  IF peers = {} THEN 50000
                 ELSE LET category_avg == DivRound(SumOver(category_costs, peers),
                                                   Cardinality(peers))
                      IN  IF category_avg = 0 THEN 50000
                          ELSE EfficiencyFormula(agent_avg, category_avg)

Signals(a) ==
    (IF a.output_hash THEN 1 ELSE 0) + (IF a.input_hash THEN 1 ELSE 0)
    + (IF HasConfidence(a) THEN 1 ELSE 0)

ComputeTransparency(acts) ==
    LET total == Len(acts)
    IN  IF total = 0 THEN 50000
        ELSE LET transparent_count == SeqSum([i \in 1..total |-> Signals(acts[i])])
                 max_possible      == total * 3
             IN  DivRound(transparent_count * 100000, max_possible)

\* ------------------------------------------------------------------------
\* Aggregator
\* ------------------------------------------------------------------------
\* the mapping with Bronze starting at 50
ScoreToTierBronzeAt50(score) ==
    IF score >= 90000 THEN "Platinum"
    ELSE IF score >= 75000 THEN "Gold"
    ELSE IF score >= 60000 THEN "Silver"
    ELSE IF score >= 50000 THEN "Bronze"
    ELSE "Unverified"

\* the mapping with strict comparisons
ScoreToTierStrict(score) ==
    IF score > 90000 THEN "Platinum"
    ELSE IF score > 75000 THEN "Gold"
    ELSE IF score > 60000 THEN "Silver"
    ELSE IF score > 40000 THEN "Bronze"
    ELSE "Unverified"

ScoreToTier(score) ==
    IF score >= 90000 THEN "Platinum"
    ELSE IF score >= 75000 THEN "Gold"
    ELSE IF score >= 60000 THEN "Silver"
    ELSE IF score >= 40000 THEN "Bronze"
    ELSE "Unverified"

DefaultReputation(now_iso) ==
    [overall_score |-> 50000,
     trust_tier    |-> "Unverified",
     breakdown     |-> [reliability |-> 50000, safety |-> 100000, consistency |-> 50000,
                        efficiency |-> 50000, transparency |-> 50000],
     trend         |-> "stable",
     last_computed |-> now_iso]

\* the aggregate with the weights of reliability and safety exchanged
WeightedOverallSwapped(reliability, safety, consistency, efficiency, transparency) ==
    Clamp(DivRound(reliability * 25 + safety * 30 + consistency * 20
                   + efficiency * 15 + transparency * 10, 100))

\* reliability 30%, safety 25%, consistency 20%, efficiency 15%, transparency 10%
WeightedOverall(reliability, safety, consistency, efficiency, transparency) ==
    Clamp(DivRound(reliability * 30 + safety * 25 + consistency * 20
                   + efficiency * 15 + transparency * 10, 100))

\* the trend without its band of 2 points
TrendNoBand(overall, prev_score) ==
    IF overall > prev_score THEN "improving"
    ELSE IF overall < prev_score THEN "declining"
    ELSE "stable"

Trend(overall, prev_score) ==
    IF overall > prev_score + 2000 THEN "improving"
    ELSE IF overall < prev_score - 2000 THEN "declining"
    ELSE "stable"

\* _update_stats taking every action for a success
UpdateStatsCountingAll(profile, acts, incs) ==
    [total_actions |-> Len(acts),
     success_rate  |-> IF Len(acts) > 0 THEN 100000 ELSE 0,
     avg_rating    |-> NONE,
     incidents     |-> Len(incs)]

UpdateStats(profile, acts, incs) ==
    LET total     == Len(acts)
        successes == Len(SelectSeq(acts, IsSuccess))
        rated     == SelectSeq(acts, LAMBDA a : a.commissioner_rating # NONE)
        ratings   == [i \in 1..Len(rated) |-> rated[i].commissioner_rating]
    IN  [total_actions |-> total,
         success_rate  |-> IF total > 0 THEN DivRound(successes * 100000, total) ELSE 0,
         avg_rating    |-> IF ratings # <<>> THEN Mean100(ratings) ELSE NONE,
         incidents     |-> Len(incs)]

\* the snapshot _recompute_reputation builds for an agent that has actions
ScoredReputation(ag, acts, incs, agent_id) ==
    LET a            == acts[agent_id]
        i            == incs[agent_id]
        reliability  == ComputeReliability(a)
        safety       == ComputeSafety(a, i)
        consistency  == ComputeConsistency(a)
        efficiency   == ComputeEfficiency(ag, acts, agent_id)
        transparency == ComputeTransparency(a)
        overall      == WeightedOverall(reliability, safety, consistency,
                                        efficiency, transparency)
        prev_score   == ag[agent_id].reputation.overall_score
    IN  [overall_score |-> Round2(overall),
         trust_tier    |-> ScoreToTier(overall),
         breakdown     |-> [reliability  |-> Round2(reliability),
                            safety       |-> Round2(safety),
                            consistency  |-> Round2(consistency),
                            efficiency   |-> Round2(efficiency),
                            transparency |-> Round2(transparency)],
         trend         |-> Trend(overall, prev_score),
         last_computed |-> now]

\* the recompute without the early return for an agent that has no action
RecomputedProfileNoDefault(ag, acts, incs, agent_id) ==
    [ag[agent_id] EXCEPT
        !.reputation = ScoredReputation(ag, acts, incs, agent_id),
        !.stats = UpdateStats(ag[agent_id], acts[agent_id], incs[agent_id])]

\* the profile of agent_id after _recompute_reputation
RecomputedProfile(ag, acts, incs, agent_id) ==
    [ag[agent_id] EXCEPT
        !.reputation = IF acts[agent_id] = <<>> THEN DefaultReputation(now)
                       ELSE ScoredReputation(ag, acts, incs, agent_id),
        !.stats = UpdateStats(ag[agent_id], acts[agent_id], incs[agent_id])]

\* a recompute that also refreshes the agents of agent_id's category
RecomputeReputationWithPeers(ag, acts, incs, agent_id) ==
    [b \in DOMAIN ag |->
        IF ag[b].category = ag[agent_id].category
        THEN RecomputedProfile(ag, acts, incs, b)
        ELSE ag[b]]

RecomputeReputation(ag, acts, incs, agent_id) ==
    [ag EXCEPT ![agent_id] = RecomputedProfile(ag, acts, incs, agent_id)]

\* ------------------------------------------------------------------------
\* Handlers of the store
\* ------------------------------------------------------------------------
\* the call returned
Ok == [status |-> "ok"]

\* the call returned the body given: a list, or a single object as a list of one
OkWith(body) == [status |-> "ok", body |-> body]

\* the call raised NotFoundError
NotFoundError == [status |-> "not_found"]

\* _random_id("agt_"): the next unused identifier
NewAgentId == Cardinality(DOMAIN agents) + 1

\* data.get("capabilities", [])
NewProfile(agent_id, data) ==
    [agent_id   |-> agent_id,
     category   |-> data.category,
     capabilities |-> IF "capabilities" \in DOMAIN data THEN data.capabilities ELSE {},
     reputation |-> DefaultReputation(now),
     stats      |-> [total_actions |-> 0, success_rate |-> 0, avg_rating |-> NONE,
                     incidents |-> 0]]

\* _register_agent, agent_id being what _random_id has drawn
RegisterAgentWithId(agent_id, data) ==
    /\ agents' = (agent_id :> NewProfile(agent_id, data)) @@ agents
    /\ response' = Ok
    /\ UNCHANGED <<actions, incidents, outside>>

\* _register_agent when the identifier drawn is an unused one
RegisterAgent(data) ==
    /\ NewAgentId \in AgentIds
    /\ RegisterAgentWithId(NewAgentId, data)

\* a fetch that recomputes the snapshot before returning it
GetAgentRecomputing(agent_id) ==
    /\ IF agent_id \in DOMAIN agents
       THEN /\ agents' = RecomputeReputation(agents, actions, incidents, agent_id)
            /\ response' = OkWith(<<agents'[agent_id]>>)
       ELSE /\ response' = NotFoundError
            /\ UNCHANGED agents
    /\ UNCHANGED <<actions, incidents, outside>>

GetAgent(agent_id) ==
    /\ response' = IF agent_id \in DOMAIN agents THEN OkWith(<<agents[agent_id]>>)
                   ELSE NotFoundError
    /\ UNCHANGED <<agents, actions, incidents, outside>>

UpdateAgent(agent_id, data) ==
    /\ IF agent_id \in DOMAIN agents
       THEN /\ agents' = [agents EXCEPT ![agent_id].category =
                              IF data.category # NoCategory THEN data.category ELSE @]
            /\ response' = Ok
       ELSE /\ response' = NotFoundError
            /\ UNCHANGED agents
    /\ UNCHANGED <<actions, incidents, outside>>

NewAction(agent_id, data) ==
    [action_id                |-> Len(actions[agent_id]) + 1,
     agent_id                 |-> agent_id,
     status                   |-> data.status,
     cost_usd                 |-> data.cost_usd,
     self_reported_confidence |-> data.self_reported_confidence,
     commissioner_rating      |-> NONE,
     input_hash               |-> data.input_hash,
     output_hash              |-> data.output_hash]

TotalActions == SumOver([a \in AgentIds |-> Len(actions[a])], AgentIds)

TotalIncidents == SumOver([a \in AgentIds |-> Len(incidents[a])], AgentIds)

\* the handler without its call of _recompute_reputation
RecordActionNoRecompute(agent_id, data) ==
    /\ IF agent_id \in DOMAIN agents
       THEN /\ TotalActions < MaxActions
            /\ actions' = [actions EXCEPT ![agent_id] =
                               Append(@, NewAction(agent_id, data))]
            /\ agents' = agents
            /\ response' = Ok
       ELSE /\ response' = NotFoundError
            /\ UNCHANGED <<agents, actions>>
    /\ UNCHANGED <<incidents, outside>>

\* _record_action as the store sees it
RecordActionStore(agent_id, data) ==
    /\ IF agent_id \in DOMAIN agents
       THEN /\ TotalActions < MaxActions
            /\ actions' = [actions EXCEPT ![agent_id] =
                               Append(@, NewAction(agent_id, data))]
            /\ agents' = RecomputeReputation(agents, actions', incidents, agent_id)
            /\ response' = Ok
       ELSE /\ response' = NotFoundError
            /\ UNCHANGED <<agents, actions>>
    /\ UNCHANGED incidents

\* two POSTs of one payload served one after the other
RecordActionTwice(agent_id, data) ==
    /\ agent_id \in DOMAIN agents
    /\ TotalActions + 1 < MaxActions
    /\ LET first  == NewAction(agent_id, data)
           acts1  == [actions EXCEPT ![agent_id] = Append(@, first)]
           ag1    == RecomputeReputation(agents, acts1, incidents, agent_id)
           second == [first EXCEPT !.action_id = Len(acts1[agent_id]) + 1]
           acts2  == [acts1 EXCEPT ![agent_id] = Append(@, second)]
       IN  /\ actions' = acts2
           /\ agents' = RecomputeReputation(ag1, acts2, incidents, agent_id)
    /\ response' = Ok
    /\ UNCHANGED incidents

RecordAction(agent_id, data) ==
    /\ RecordActionStore(agent_id, data)
    /\ UNCHANGED outside

\* the handler recomputing from the incidents stored under the action's id
RateActionWrongIncidents(agent_id, action_id, data) ==
    /\ IF action_id \in 1..Len(actions[agent_id])
       THEN /\ actions' = [actions EXCEPT ![agent_id][action_id].commissioner_rating =
                               data.rating]
            /\ agents' = RecomputeReputation(agents, actions',
                                             [incidents EXCEPT ![agent_id] = <<>>], agent_id)
            /\ response' = Ok
       ELSE /\ response' = NotFoundError
            /\ UNCHANGED <<agents, actions>>
    /\ UNCHANGED <<incidents, outside>>

\* the handler replacing the rated record by a fresh one that carries the
\* rating
RateActionReplacingRecord(agent_id, action_id, data) ==
    /\ IF action_id \in 1..Len(actions[agent_id])
       THEN /\ actions' = [actions EXCEPT ![agent_id][action_id] =
                               [@ EXCEPT !.commissioner_rating = data.rating,
                                         !.self_reported_confidence = NONE,
                                         !.input_hash = FALSE]]
            /\ agents' = RecomputeReputation(agents, actions', incidents, agent_id)
            /\ response' = Ok
       ELSE /\ response' = NotFoundError
            /\ UNCHANGED <<agents, actions>>
    /\ UNCHANGED incidents

\* _rate_action as the store sees it
RateActionStore(agent_id, action_id, data) ==
    /\ IF action_id \in 1..Len(actions[agent_id])
       THEN /\ actions' = [actions EXCEPT ![agent_id][action_id].commissioner_rating =
                               data.rating]
            /\ agents' = RecomputeReputation(agents, actions', incidents, agent_id)
            /\ response' = Ok
       ELSE /\ response' = NotFoundError
            /\ UNCHANGED <<agents, actions>>
    /\ UNCHANGED incidents

RateAction(agent_id, action_id, data) ==
    /\ RateActionStore(agent_id, action_id, data)
    /\ UNCHANGED outside

NewIncident(agent_id, data) ==
    [incident_id |-> Len(incidents[agent_id]) + 1,
     agent_id    |-> agent_id,
     severity    |-> data.severity,
     status      |-> "open"]

ReportIncident(data) ==
    /\ IF data.agent_id \in DOMAIN agents
       THEN /\ TotalIncidents < MaxIncidents
            /\ incidents' = [incidents EXCEPT ![data.agent_id] =
                                 Append(@, NewIncident(data.agent_id, data))]
            /\ agents' = RecomputeReputation(
                             [agents EXCEPT ![data.agent_id].stats.incidents =
                                  Len(incidents'[data.agent_id])],
                             actions, incidents', data.agent_id)
            /\ response' = Ok
       ELSE /\ response' = NotFoundError
            /\ UNCHANGED <<agents, incidents>>
    /\ UNCHANGED <<actions, outside>>

\* the slice s[offset : offset + limit]
Slice(s, offset, limit) == SubSeq(s, offset + 1, Min(Len(s), offset + limit))

\* list(self._agents.values()), the agents in registration order
AgentValues == [i \in 1..Cardinality(DOMAIN agents) |-> agents[i]]

ListAgents ==
    /\ response' = OkWith(AgentValues)
    /\ UNCHANGED <<agents, actions, incidents, outside>>

\* status "None": no status filter; limit and offset default to 50 and 0
GetActions(agent_id, params) ==
    /\ response' =
           IF agent_id \in DOMAIN agents
           THEN LET acts == actions[agent_id]
                    filtered == IF params.status # "None"
                                THEN SelectSeq(acts, LAMBDA a : a.status = params.status)
                                ELSE acts
                IN  OkWith(Slice(filtered, params.offset, params.limit))
           ELSE NotFoundError
    /\ UNCHANGED <<agents, actions, incidents, outside>>

\* the one-element history; params (the window in days) is not read
\* an entry whose actions_in_window counts the successful share only
HistoryEntrySuccessful(profile) ==
    [overall_score     |-> profile.reputation.overall_score,
     breakdown         |-> profile.reputation.breakdown,
     trust_tier        |-> profile.reputation.trust_tier,
     actions_in_window |-> (profile.stats.total_actions * profile.stats.success_rate)
                               \div 100000,
     computed_at       |-> profile.reputation.last_computed]

HistoryEntry(profile) ==
    [overall_score     |-> profile.reputation.overall_score,
     breakdown         |-> profile.reputation.breakdown,
     trust_tier        |-> profile.reputation.trust_tier,
     actions_in_window |-> profile.stats.total_actions,
     computed_at       |-> profile.reputation.last_computed]

GetReputationHistory(agent_id, params) ==
    /\ response' = IF agent_id \in DOMAIN agents
                   THEN OkWith(<<HistoryEntry(agents[agent_id])>>)
                   ELSE NotFoundError
    /\ UNCHANGED <<agents, actions, incidents, outside>>

GetAgentIncidents(agent_id) ==
    /\ response' = IF agent_id \in DOMAIN agents
                   THEN OkWith(incidents[agent_id])
                   ELSE NotFoundError
    /\ UNCHANGED <<agents, actions, incidents, outside>>

\* the key agents.sort is given
SortKey(a, sort_by) ==
    IF sort_by = "reputation" THEN a.reputation.overall_score
    ELSE IF sort_by = "actions" THEN a.stats.total_actions
    ELSE 0

\* list.sort(key, reverse=True): descending, equal keys keep their order
RECURSIVE SortDescending(_, _)
SortDescending(s, sort_by) ==
    IF Len(s) <= 1 THEN s
    ELSE LET front == SortDescending(SubSeq(s, 1, Len(s) - 1), sort_by)
             x     == s[Len(s)]
             k     == Cardinality({i \in 1..Len(front) :
                                      SortKey(front[i], sort_by) >= SortKey(x, sort_by)})
         IN  SubSeq(front, 1, k) \o <<x>> \o SubSeq(front, k + 1, Len(front))

\* category NoCategory, min_reputation NONE: no such filter; capabilities is
\* a str or a list of them, or is not among the parameters
SearchAgents(params) ==
    /\ LET byCategory == IF params.category # NoCategory
                         THEN SelectSeq(AgentValues,
                                        LAMBDA a : a.category = params.category)
                         ELSE AgentValues
           byRep == IF params.min_reputation # NONE
                    THEN SelectSeq(byCategory, LAMBDA a :
                             a.reputation.overall_score >= params.min_reputation)
                    ELSE byCategory
           capabilities == IF "capabilities" \in DOMAIN params
                           THEN IF params.capabilities.type = "str"
                                THEN <<params.capabilities.value>>
                                ELSE params.capabilities.value
                           ELSE <<>>
           byCapability == IF capabilities # <<>>
                           THEN SelectSeq(byRep, LAMBDA a :
                                    \E i \in 1..Len(capabilities) :
                                        capabilities[i] \in a.capabilities)
                           ELSE byRep
           sorted == SortDescending(byCapability, params.sort_by)
           start  == (params.page - 1) * params.per_page
       IN  response' = OkWith(<<[agents   |-> Slice(sorted, start, params.per_page),
                                 total    |-> Len(sorted),
                                 page     |-> params.page,
                                 per_page |-> params.per_page,
                                 has_more |-> start + params.per_page < Len(sorted)]>>)
    /\ UNCHANGED <<agents, actions, incidents, outside>>

\* a capability is a string, here the sequence of its parts: a name is one
\* part, the comma another
CapabilityNames == {<<"python">>, <<"test">>}

\* ",".join(strings)
RECURSIVE JoinComma(_)
JoinComma(strings) ==
    IF strings = <<>> THEN <<>>
    ELSE IF Len(strings) = 1 THEN strings[1]
    ELSE strings[1] \o <<",">> \o JoinComma(Tail(strings))

\* the arguments of AgentOS.search_agents: a category or none, a list of
\* capabilities or none, a page and its size
Queries ==
    [category     : Categories \cup {NoCategory},
     capabilities : {<<>>} \cup { <<c>> : c \in CapabilityNames }
                          \cup (CapabilityNames \X CapabilityNames),
     page         : 1..2,
     per_page     : 1..2]

\* AgentOS.search_agents in local mode
ClientSearchAgents(q) ==
    SearchAgents(
        IF q.capabilities # <<>>
        THEN [sort_by |-> "reputation", page |-> q.page, per_page |-> q.per_page,
              category |-> q.category, min_reputation |-> NONE,
              capabilities |-> [type |-> "str", value |-> JoinComma(q.capabilities)]]
        ELSE [sort_by |-> "reputation", page |-> q.page, per_page |-> q.per_page,
              category |-> q.category, min_reputation |-> NONE])

LeaderboardEntry(a) ==
    [agent_id         |-> a.agent_id,
     category         |-> a.category,
     reputation_score |-> a.reputation.overall_score,
     trust_tier       |-> a.reputation.trust_tier,
     total_actions    |-> a.stats.total_actions]

GetLeaderboard(params) ==
    /\ LET byCategory == IF params.category # NoCategory
                         THEN SelectSeq(AgentValues,
                                        LAMBDA a : a.category = params.category)
                         ELSE AgentValues
           top == Slice(SortDescending(byCategory, "reputation"), 0, params.limit)
       IN  response' = OkWith([i \in 1..Len(top) |-> LeaderboardEntry(top[i])])
    /\ UNCHANGED <<agents, actions, incidents, outside>>

\* avg_reputation in hundredths of the scores' unit
GetEcosystemStats ==
    /\ LET scores == [i \in 1..Len(AgentValues) |-> AgentValues[i].reputation.overall_score]
       IN  response' = OkWith(<<[total_agents    |-> Len(AgentValues),
                                 total_actions   |-> TotalActions,
                                 total_incidents |-> TotalIncidents,
                                 avg_reputation  |-> IF scores # <<>> THEN Mean100(scores)
                                                     ELSE 0]>>)
    /\ UNCHANGED <<agents, actions, incidents, outside>>

\* time passes
Tick ==
    /\ now < MaxTime
    /\ now' = now + 1
    /\ UNCHANGED <<agents, actions, incidents, response, direct, act, threads, crew, req, stream>>

\* ------------------------------------------------------------------------
\* Threads
\* ------------------------------------------------------------------------
Threads == 1..MaxThreads

\* a thread that has not called the store; scores holds its call's locals
\* reliability, safety, consistency, efficiency, transparency
IdleThread ==
    [pc     |-> "idle",
     op     |-> "none",
     scores |-> [reliability |-> NONE, safety |-> NONE, consistency |-> NONE,
                 efficiency |-> NONE, transparency |-> NONE],
     seen   |-> {}]

\* ------------------------------------------------------------------------
\* The Action context manager
\* ------------------------------------------------------------------------
\* max_length of ActionRecord.error_message
MaxMessageLength == 500

\* the lengths of "{type(exc).__name__}: {exc}" of the exceptions a block or a
\* crew raises: a short message and one longer than MaxMessageLength
ExceptionLengths == {20, 600}

\* action_id of the stub response of _make_stub_response, "act_pending"
ActPending == 0

\* the client of an Action: the LocalStore or an HttpClient
Modes == {"local", "http"}

\* no Action object has been constructed; of a constructed one,
\*   state            where its caller is: created, entered, exited
\*   recorded         _recorded
\*   action_response  _action_response: NONE, ActPending or the action_id
\*   response_status  the status of _action_response
\*   posts            how many times it has called its client's post
\*   pending          the payload of _post_thread while it is still running
\*   request          the request the last call on the object has sent
\*   raised           the exception the last call on the object has raised
\*   known            whether its agent was registered when it was constructed
\*   base             the agent's number of actions when it was constructed
\*   called           the first of success, fail, partial called on it
\*   exc              whether the block has left with an exception
NoActionObject ==
    [state |-> "none", agent_id |-> NONE, mode |-> "none", recorded |-> FALSE,
     action_response |-> NONE, response_status |-> "none", posts |-> 0,
     pending |-> <<>>, request |-> "none",
     raised |-> "none", known |-> FALSE, base |-> 0, called |-> "none", exc |-> FALSE]

\* five of the VALID_ERROR_TYPES and a string that is none of them
ValidErrorTypes == {"timeout", "hallucination", "api_failure", "rate_limit", "unknown"}

\* the keyword arguments of success(), fail() and partial(): a valid and an
\* invalid call of each (confidence is in hundredths, 150 is 1.5;
\* error_message is the message's length, 0 for None)
ActionCalls ==
    { [method |-> "success", status |-> "success", output |-> TRUE,
       confidence |-> 90, cost_usd |-> 1, error_type |-> "None", error_message |-> 0],
      [method |-> "success", status |-> "success", output |-> FALSE,
       confidence |-> 150, cost_usd |-> NONE, error_type |-> "None", error_message |-> 0],
      [method |-> "fail", status |-> "failed", output |-> FALSE,
       confidence |-> NONE, cost_usd |-> NONE, error_type |-> "timeout",
       error_message |-> 20],
      [method |-> "fail", status |-> "failed", output |-> FALSE,
       confidence |-> NONE, cost_usd |-> 100, error_type |-> "bogus", error_message |-> 0],
      [method |-> "partial", status |-> "partial", output |-> TRUE,
       confidence |-> 50, cost_usd |-> 100, error_type |-> "None", error_message |-> 0] }

\* the keyword arguments __exit__ hands to _safe_record; exc is the length
\* of "{exc_type.__name__}: {exc_val}", 0 when the block has raised nothing
ExitCall(exc) ==
    [method |-> "exit", status |-> IF exc > 0 THEN "error" ELSE "success", output |-> FALSE,
     confidence |-> NONE, cost_usd |-> NONE,
     error_type |-> IF exc > 0 THEN "unknown" ELSE "None",
     error_message |-> exc]

\* ActionRecord(...) accepts the payload: 0.0 <= confidence <= 1.0, a known
\* error_type and an error_message of at most 500 characters
PayloadValid(kwargs) ==
    /\ kwargs.confidence = NONE \/ (0 <= kwargs.confidence /\ kwargs.confidence <= 100)
    /\ kwargs.error_type = "None" \/ kwargs.error_type \in ValidErrorTypes
    /\ kwargs.error_message <= MaxMessageLength

\* _build_payload: what of the payload the store keeps; an Action never
\* sends an input_hash
BuildPayload(kwargs) ==
    [status |-> kwargs.status, cost_usd |-> kwargs.cost_usd,
     self_reported_confidence |-> kwargs.confidence,
     input_hash |-> FALSE, output_hash |-> kwargs.output]

\* Action(client, agent_id, ...), as agent.action() constructs it
NewActionObject(agent_id, mode) ==
    /\ act.state \in {"none", "exited"}
    /\ act.pending = <<>>
    /\ act' = [NoActionObject EXCEPT !.state = "created", !.agent_id = agent_id,
                                      !.mode = mode, !.known = agent_id \in DOMAIN agents,
                                      !.base = Len(actions[agent_id])]
    /\ UNCHANGED <<agents, actions, incidents, response, aside>>

\* __enter__
Enter ==
    /\ act.state = "created"
    /\ act' = [act EXCEPT !.state = "entered", !.request = "none", !.raised = "none"]
    /\ UNCHANGED <<agents, actions, incidents, response, aside>>

\* the post whose failure in HTTP mode reaches the caller, as it does in local
\* mode
PostPropagating(done, kwargs, safe) ==
    LET agent_id == done.agent_id
        payload  == BuildPayload(kwargs)
        posted   == [done EXCEPT !.request = "POST", !.posts = @ + 1]
    IN  \/ /\ RecordActionStore(agent_id, payload)
           /\ act' = IF agent_id \in DOMAIN agents
                     THEN [posted EXCEPT !.action_response = Len(actions[agent_id]) + 1,
                                         !.response_status = payload.status]
                     ELSE [posted EXCEPT !.raised = IF safe THEN "none"
                                                    ELSE "NotFoundError"]
        \/ /\ done.mode = "http"
           /\ act' = [posted EXCEPT !.raised = IF safe THEN "none" ELSE "NetworkError"]
           /\ UNCHANGED <<agents, actions, incidents, response>>

\* _record from its try block on: the post of a payload that has been built,
\* on the object done; safe is whether it runs under _safe_record, which
\* swallows what it raises
Post(done, kwargs, safe) ==
    LET agent_id == done.agent_id
        payload  == BuildPayload(kwargs)
        posted   == [done EXCEPT !.request = "POST", !.posts = @ + 1]
        stub     == [posted EXCEPT !.action_response = ActPending,
                                   !.response_status = kwargs.status]
    IN  IF done.mode = "local"
        THEN /\ RecordActionStore(agent_id, payload)
             /\ act' = IF agent_id \in DOMAIN agents
                       THEN [posted EXCEPT !.action_response = Len(actions[agent_id]) + 1,
                                           !.response_status = payload.status]
                       ELSE [posted EXCEPT !.raised = IF safe THEN "none"
                                                      ELSE "NotFoundError"]
        ELSE \* the _post thread has returned the backend's action
             \/ /\ agent_id \in DOMAIN agents
                /\ RecordActionStore(agent_id, payload)
                /\ act' = [posted EXCEPT !.action_response = Len(actions[agent_id]) + 1,
                                         !.response_status = payload.status]
             \* the post has raised, in the thread or in _sync_post
             \/ /\ act' = stub
                /\ response' = IF agent_id \in DOMAIN agents THEN response
                               ELSE NotFoundError
                /\ UNCHANGED <<agents, actions, incidents>>
             \* the thread is still running after the wait
             \/ /\ act' = [stub EXCEPT !.pending = <<payload>>]
                /\ UNCHANGED <<agents, actions, incidents, response>>
             \* the backend has recorded the action and answered with a body
             \* (none, or not an ActionResponse) that model_validate rejects:
             \* _sync_post posts again; its post raises, or is recorded too
             \/ /\ agent_id \in DOMAIN agents
                /\ \/ /\ RecordActionStore(agent_id, payload)
                      /\ act' = [stub EXCEPT !.posts = @ + 1]
                   \/ /\ RecordActionTwice(agent_id, payload)
                      /\ \/ act' = [stub EXCEPT !.posts = @ + 1]
                         \/ act' = [posted EXCEPT
                                       !.posts = @ + 1,
                                       !.action_response = Len(actions[agent_id]) + 2,
                                       !.response_status = payload.status]

\* _record setting _recorded only once the payload has been built
RecordMarkingLate(obj, kwargs, safe) ==
    LET cleared == [obj EXCEPT !.request = "none", !.raised = "none"]
    IN  IF ~PayloadValid(kwargs)
        THEN /\ act' = [cleared EXCEPT !.raised = IF safe THEN "none"
                                                  ELSE "ValidationError"]
             /\ UNCHANGED <<agents, actions, incidents, response>>
        ELSE Post([cleared EXCEPT !.recorded = TRUE], kwargs, safe)

\* _record with the keyword arguments given, on the object obj
Record(obj, kwargs, safe) ==
    LET done == [obj EXCEPT !.recorded = TRUE, !.request = "none", !.raised = "none"]
    IN  IF ~PayloadValid(kwargs)
        THEN /\ act' = [done EXCEPT !.raised = IF safe THEN "none" ELSE "ValidationError"]
             /\ UNCHANGED <<agents, actions, incidents, response>>
        ELSE Post(done, kwargs, safe)

\* success(), fail() or partial() on the object obj
CallOn(obj, kwargs) ==
    IF obj.recorded
    THEN /\ act' = [obj EXCEPT !.request = "none", !.raised = "ActionError"]
         /\ UNCHANGED <<agents, actions, incidents, response>>
    ELSE Record([obj EXCEPT !.called = kwargs.status], kwargs, FALSE)

\* success(), fail() or partial()
Call(kwargs) ==
    /\ act.state \in {"created", "entered", "exited"}
    /\ CallOn(act, kwargs)
    /\ UNCHANGED aside

\* __exit__ on the object obj; exc as for ExitCall
ExitOn(obj, exc) ==
    IF obj.recorded
    THEN /\ act' = [obj EXCEPT !.state = "exited", !.exc = exc > 0,
                               !.request = "none", !.raised = "none"]
         /\ UNCHANGED <<agents, actions, incidents, response>>
    ELSE Record([obj EXCEPT !.state = "exited", !.exc = exc > 0], ExitCall(exc), TRUE)

\* __exit__ with or without an exception of the block
Exit(exc) ==
    /\ act.state = "entered"
    /\ ExitOn(act, exc)
    /\ UNCHANGED aside

\* rate()
Rate(data) ==
    /\ act.state \in {"created", "entered", "exited"}
    /\ IF act.action_response = NONE
       THEN /\ act' = [act EXCEPT !.request = "none", !.raised = "ActionError"]
            /\ UNCHANGED <<agents, actions, incidents, response>>
       ELSE \/ /\ RateActionStore(act.agent_id, act.action_response, data)
               /\ act' = [act EXCEPT !.request = "PATCH",
                                     !.raised = IF response'.status = "ok" THEN "none"
                                                ELSE "NotFoundError"]
            \/ /\ act.mode = "http"
               /\ act' = [act EXCEPT !.request = "PATCH", !.raised = "NetworkError"]
               /\ UNCHANGED <<agents, actions, incidents, response>>
    /\ UNCHANGED aside

\* the request of a _post_thread that was still running reaches the backend
PostThreadEnds ==
    /\ act.pending # <<>>
    /\ RecordActionStore(act.agent_id, act.pending[1])
    /\ act' = [act EXCEPT !.pending = <<>>]
    /\ UNCHANGED aside

\* ------------------------------------------------------------------------
\* HttpClient._request
\* ------------------------------------------------------------------------
\* self._max_retries, by default
DEFAULT_MAX_RETRIES == 3

\* no call is under way; of one that is,
\*   pc       sending (in the loop) or done
\*   attempt  the loop's attempt
\*   log      what each request sent so far has met, in order
\*   result   how the call has ended: "json" or "None" returned, or the
\*            exception raised
NoRequest == [pc |-> "idle", attempt |-> 0, log |-> <<>>, result |-> "none"]

\* what a request can meet: a response of some status code, with or without
\* a JSON body, or an exception of httpx
Replies ==
    { [kind |-> "response", code |-> c, json |-> j] :
          c \in {200, 400, 401, 403, 404, 422, 429, 500, 503}, j \in {TRUE} } \cup
    { [kind |-> "response", code |-> 204, json |-> FALSE] } \cup
    { [kind |-> k, code |-> 0, json |-> FALSE] :
          k \in {"ConnectError", "TimeoutException", "HTTPError"} }

\* what _handle_error_response raises for a status code, "none" if it returns
HandleErrorResponse(status) ==
    IF status = 401 THEN "AuthenticationError"
    ELSE IF status = 404 THEN "NotFoundError"
    ELSE IF status = 422 THEN "ValidationError"
    ELSE IF status = 429 THEN "RateLimitError"
    ELSE IF status >= 500 THEN "ServerError"
    ELSE "none"

\* the call ends with result
Ends(reply, result) ==
    req' = [req EXCEPT !.pc = "done", !.log = Append(@, reply), !.result = result]

\* the loop goes on to its next attempt, or falls out of the for statement
\* into the raise of NetworkError below it
NextAttempt(reply) ==
    IF req.attempt < DEFAULT_MAX_RETRIES
    THEN req' = [req EXCEPT !.attempt = @ + 1, !.log = Append(@, reply)]
    ELSE Ends(reply, "NetworkError")

\* _request is called
Request ==
    /\ req.pc \in {"idle", "done"}
    /\ req' = [NoRequest EXCEPT !.pc = "sending"]
    /\ UNCHANGED <<agents, actions, incidents, response, direct, act, now, threads, crew, stream>>

\* one pass of the for loop: the request is sent and meets reply
Attempt(reply) ==
    /\ req.pc = "sending"
    /\ IF reply.kind = "response"
       THEN IF reply.code < 400
            THEN Ends(reply, IF reply.json THEN "json" ELSE "None")
            ELSE IF (reply.code = 429 \/ reply.code >= 500)
                    /\ req.attempt < DEFAULT_MAX_RETRIES
            THEN NextAttempt(reply)
            ELSE IF HandleErrorResponse(reply.code) # "none"
            THEN Ends(reply, HandleErrorResponse(reply.code))
            ELSE NextAttempt(reply)
       ELSE IF reply.kind \in {"ConnectError", "TimeoutException"}
            THEN NextAttempt(reply)
            ELSE Ends(reply, "NetworkError")
    /\ UNCHANGED <<agents, actions, incidents, response, direct, act, now, threads, crew, stream>>

NextHttp ==
    \/ Request
    \/ \E reply \in Replies : Attempt(reply)

\* ------------------------------------------------------------------------
\* CrewAIWrapper.kickoff
\* ------------------------------------------------------------------------
\* no kickoff is under way; of one that is,
\*   pc       where it is: enter (first loop done), mark and exit (the loop
\*            over actions after the crew has run), done
\*   objs     the Action objects of `actions`, in the order of agent_mapping
\*   i        the loop's position
\*   outcome  what self._crew.kickoff has done: returned or raised
\*   exc      the length of "{type(exc).__name__}: {exc}" of what it raised
\*   ended    how the call has ended: returned (the crew's result) or raised
\*            (the crew's exception)
NoKickoff ==
    [pc |-> "idle", objs |-> <<>>, i |-> 0, outcome |-> "none", exc |-> 0,
     ended |-> "none"]

\* agent_mapping: the agents of one or two roles, no agent under two roles
AgentMappings ==
    { <<a>> : a \in AgentIds } \cup
    { m \in AgentIds \X AgentIds : m[1] # m[2] }

\* the keyword arguments of action.success(output=result)
KickoffSuccess ==
    [method |-> "success", status |-> "success", output |-> TRUE,
     confidence |-> NONE, cost_usd |-> NONE, error_type |-> "None", error_message |-> 0]

\* the keyword arguments of action.fail(error_type="api_failure", error_message=...)
KickoffFail(exc) ==
    [method |-> "fail", status |-> "failed", output |-> FALSE,
     confidence |-> NONE, cost_usd |-> NONE, error_type |-> "api_failure",
     error_message |-> exc]

\* kickoff's first loop: an entered Action for every role of agent_mapping,
\* whose Agent objects come from registrations with the client of mode
Kickoff(mapping, mode) ==
    /\ crew.pc \in {"idle", "done"}
    /\ \A i \in 1..Len(mapping) : mapping[i] \in DOMAIN agents
    /\ crew' = [NoKickoff EXCEPT
           !.pc = "run",
           !.objs = [i \in 1..Len(mapping) |->
                        [NoActionObject EXCEPT
                            !.state = "entered", !.agent_id = mapping[i], !.mode = mode,
                            !.known = TRUE, !.base = Len(actions[mapping[i]])]]]
    /\ UNCHANGED <<agents, actions, incidents, response, direct, act, now, threads, req, stream>>

\* self._crew.kickoff returns, or raises an exception of the length exc
CrewRuns(exc) ==
    /\ crew.pc = "run"
    /\ crew' = [crew EXCEPT !.pc = "mark", !.i = 1,
                            !.outcome = IF exc > 0 THEN "raised" ELSE "returned",
                            !.exc = exc]
    /\ UNCHANGED <<agents, actions, incidents, response, direct, act, now, threads, req, stream>>

\* action.success(...) or action.fail(...) of the loop's action, whose
\* exception the loop swallows
KickoffMark ==
    /\ crew.pc = "mark"
    /\ CallOn(crew.objs[crew.i],
              IF crew.outcome = "returned" THEN KickoffSuccess ELSE KickoffFail(crew.exc))
    /\ crew' = [crew EXCEPT !.pc = "exit", !.objs[crew.i] = act']
    /\ UNCHANGED <<direct, now, threads, req, stream>>

\* action.__exit__(...) of the loop's action; after the last one the call
\* returns the crew's result or raises the crew's exception again
KickoffExit ==
    /\ crew.pc = "exit"
    /\ ExitOn(crew.objs[crew.i], crew.exc)
    /\ crew' = [crew EXCEPT
           !.objs[crew.i] = act',
           !.i = @ + 1,
           !.pc = IF crew.i = Len(crew.objs) THEN "done" ELSE "mark",
           !.ended = IF crew.i = Len(crew.objs) THEN crew.outcome ELSE "none"]
    /\ UNCHANGED <<direct, now, threads, req, stream>>

NextCrew ==
    \/ \E c \in Categories : RegisterAgent([category |-> c])
    \/ \E m \in AgentMappings, mode \in Modes : Kickoff(m, mode)
    \/ \E e \in {0} \cup ExceptionLengths : CrewRuns(e)
    \/ KickoffMark
    \/ KickoffExit

\* ------------------------------------------------------------------------
\* LangChainWrapper.stream
\* ------------------------------------------------------------------------
\* the longest stream of the wrapped runnable
MaxChunks == 2

\* what self._runnable.stream(...) does: the chunks it yields, and the length
\* of "{type(exc).__name__}: {exc}" of what it raises after them, 0 when it
\* ends without raising
Sources ==
    { [chunks |-> [i \in 1..n |-> i], exc |-> e] :
          n \in 0..MaxChunks, e \in {0} \cup ExceptionLengths }

\* no generator; of one that there is,
\*   pc       created (no next() yet), yielded (suspended at the yield), mark
\*            and exit (the statements after the loop), done
\*   source   the wrapped runnable's stream
\*   chunks   the chunks yielded so far
\*   obj      the Action object of `action`
\*   ended    how the generator has ended: returned (StopIteration), raised
\*            (an exception to the consumer) or closed (GeneratorExit at the
\*            yield)
NoStream ==
    [pc |-> "idle", source |-> [chunks |-> <<>>, exc |-> 0], chunks |-> <<>>,
     obj |-> NoActionObject, ended |-> "none"]

\* stream(...) is called and returns the generator; none of its body has run
Stream(agent_id, mode, source) ==
    /\ stream.pc \in {"idle", "done"}
    /\ agent_id \in DOMAIN agents
    /\ stream' = [NoStream EXCEPT
           !.pc = "created", !.source = source,
           !.obj = [NoActionObject EXCEPT !.agent_id = agent_id, !.mode = mode]]
    /\ UNCHANGED <<agents, actions, incidents, response, direct, act, now, threads, crew, req>>

\* next() of the consumer: the first one runs the body down to the loop
\* (self._agent.action(...) and action.__enter__()); the wrapped stream then
\* yields its next chunk, ends or raises
StreamNext ==
    /\ stream.pc \in {"created", "yielded"}
    /\ LET obj == IF stream.pc = "created"
                  THEN [stream.obj EXCEPT !.state = "entered", !.known = TRUE,
                                          !.base = Len(actions[stream.obj.agent_id])]
                  ELSE stream.obj
           n   == Len(stream.chunks)
       IN  IF n < Len(stream.source.chunks)
           THEN stream' = [stream EXCEPT !.pc = "yielded", !.obj = obj,
                                         !.chunks = Append(@, stream.source.chunks[n + 1])]
           ELSE stream' = [stream EXCEPT !.pc = "mark", !.obj = obj]
    /\ UNCHANGED <<agents, actions, incidents, response, direct, act, now, threads, crew, req>>

\* the consumer stops: close(), or the generator is collected; GeneratorExit
\* is raised at the yield, which `except Exception` does not catch
StreamClose ==
    /\ stream.pc = "yielded"
    /\ stream' = [stream EXCEPT !.pc = "done", !.ended = "closed"]
    /\ UNCHANGED <<agents, actions, incidents, response, direct, act, now, threads, crew, req>>

\* action.success(output=chunks) after the loop, or action.fail(...) of the
\* except clause; an exception of either leaves the generator
StreamMark ==
    /\ stream.pc = "mark"
    /\ CallOn(stream.obj,
              IF stream.source.exc = 0 THEN KickoffSuccess
              ELSE KickoffFail(stream.source.exc))
    /\ stream' = [stream EXCEPT
           !.obj = act',
           !.pc = IF act'.raised = "none" THEN "exit" ELSE "done",
           !.ended = IF act'.raised = "none" THEN "none" ELSE "raised"]
    /\ UNCHANGED <<direct, now, threads, crew, req>>

\* action.__exit__(...) of the except or of the else clause, and the end of
\* the generator
StreamExit ==
    /\ stream.pc = "exit"
    /\ ExitOn(stream.obj, stream.source.exc)
    /\ stream' = [stream EXCEPT
           !.obj = act', !.pc = "done",
           !.ended = IF stream.source.exc = 0 THEN "returned" ELSE "raised"]
    /\ UNCHANGED <<direct, now, threads, crew, req>>

NextStream ==
    \/ \E c \in Categories : RegisterAgent([category |-> c])
    \/ \E a \in AgentIds, mode \in Modes, source \in Sources : Stream(a, mode, source)
    \/ StreamNext
    \/ StreamClose
    \/ StreamMark
    \/ StreamExit

\* ------------------------------------------------------------------------
\* The store
\* ------------------------------------------------------------------------
Init ==
    /\ agents = <<>>
    /\ actions = [a \in AgentIds |-> <<>>]
    /\ incidents = [a \in AgentIds |-> <<>>]
    /\ response = [status |-> "none"]
    /\ tierArg = NONE
    /\ tierRes = "none"
    /\ relArg = <<>>
    /\ relRes = NONE
    /\ act = NoActionObject
    /\ now = 0
    /\ threads = [t \in Threads |-> IdleThread]
    /\ crew = NoKickoff
    /\ req = NoRequest
    /\ stream = NoStream

Next ==
    \/ \E c \in Categories : RegisterAgent([category |-> c])
    \/ \E a \in AgentIds : GetAgent(a)
    \/ \E a \in AgentIds, c \in Categories \cup {NoCategory} : UpdateAgent(a, [category |-> c])
    \/ \E a \in AgentIds, d \in ActionInputs : RecordAction(a, d)
    \/ \E a \in AgentIds, n \in 1..MaxActions, r \in Ratings :
           RateAction(a, n, [rating |-> r])
    \/ \E a \in AgentIds, s \in Severities :
           ReportIncident([agent_id |-> a, severity |-> s])

Spec == Init /\ [][Next]_vars

\* ------------------------------------------------------------------------
\* Action objects on a store (the LocalStore, or the backend of an HttpClient)
\* ------------------------------------------------------------------------
NextAction ==
    \/ RegisterAgent([category |-> "research"])
    \/ \E a \in AgentIds, m \in Modes : NewActionObject(a, m)
    \/ Enter
    \/ \E k \in ActionCalls : Call(k)
    \/ \E e \in {0} \cup ExceptionLengths : Exit(e)
    \/ \E r \in Ratings : Rate([rating |-> r])
    \/ PostThreadEnds

SpecAction == Init /\ [][NextAction]_vars

SpecCrew == Init /\ [][NextCrew]_vars

SpecHttp == Init /\ [][NextHttp]_vars

\* agents registered with capabilities, and searches through the client
NextSearch ==
    \/ \E c \in Categories, caps \in SUBSET CapabilityNames :
           RegisterAgent([category |-> c, capabilities |-> caps])
    \/ \E q \in Queries : ClientSearchAgents(q)

SpecSearch == Init /\ [][NextSearch]_vars

SpecStream == Init /\ [][NextStream]_vars

\* the store with _random_id drawing from a space of MaxAgents identifiers,
\* used ones included
NextIds ==
    \/ \E agent_id \in AgentIds, c \in Categories :
           RegisterAgentWithId(agent_id, [category |-> c])
    \/ \E a \in AgentIds, d \in ActionInputs : RecordAction(a, d)
    \/ \E a \in AgentIds, s \in Severities : ReportIncident([agent_id |-> a, severity |-> s])

SpecIds == Init /\ [][NextIds]_vars

\* ------------------------------------------------------------------------
\* Threads calling record_action and report_incident on one LocalStore, for
\* one agent.  The store holds no lock; a thread can be pre-empted between any
\* two statements, and the scorers read the live lists.
\* ------------------------------------------------------------------------
\* the agent the threads' calls are for
SharedAgent == 1

ThreadCalls ==
    { [op |-> "record", data |-> d] : d \in ActionInputs } \cup
    { [op |-> "report", data |-> [agent_id |-> SharedAgent, severity |-> s]] :
          s \in Severities }

\* the lengths of the lists a scorer finds
ListsSeen == <<Len(actions[SharedAgent]), Len(incidents[SharedAgent])>>

\* thread t moves to pc and keeps the score it has computed
Scored(t, dimension, score, pc) ==
    threads' = [threads EXCEPT ![t].pc = pc,
                               ![t].scores[dimension] = score,
                               ![t].seen = @ \cup {ListsSeen}]

\* _record_action up to the append, _report_incident up to its stats update
ThreadAppend(t, call) ==
    /\ threads[t].pc = "idle"
    /\ SharedAgent \in DOMAIN agents
    /\ IF call.op = "record"
       THEN /\ TotalActions < MaxActions
            /\ actions' = [actions EXCEPT ![SharedAgent] =
                               Append(@, NewAction(SharedAgent, call.data))]
            /\ UNCHANGED <<agents, incidents>>
       ELSE /\ TotalIncidents < MaxIncidents
            /\ incidents' = [incidents EXCEPT ![SharedAgent] =
                                 Append(@, NewIncident(SharedAgent, call.data))]
            /\ agents' = [agents EXCEPT ![SharedAgent].stats.incidents =
                              Len(incidents'[SharedAgent])]
            /\ UNCHANGED actions
    /\ threads' = [threads EXCEPT ![t].pc = "recompute", ![t].op = call.op]
    /\ UNCHANGED <<response, direct, act, now, crew, req, stream>>

\* _recompute_reputation down to its early return
ThreadBeginRecompute(t) ==
    /\ threads[t].pc = "recompute"
    /\ IF actions[SharedAgent] = <<>>
       THEN /\ agents' = [agents EXCEPT ![SharedAgent].reputation = DefaultReputation(now)]
            /\ threads' = [threads EXCEPT ![t].pc = "stats"]
       ELSE /\ threads' = [threads EXCEPT ![t].pc = "reliability"]
            /\ UNCHANGED agents
    /\ UNCHANGED <<actions, incidents, response, direct, act, now, crew, req, stream>>

ThreadReliability(t) ==
    /\ threads[t].pc = "reliability"
    /\ Scored(t, "reliability", ComputeReliability(actions[SharedAgent]), "safety")
    /\ UNCHANGED <<agents, actions, incidents, response, direct, act, now, crew, req, stream>>

ThreadSafety(t) ==
    /\ threads[t].pc = "safety"
    /\ Scored(t, "safety",
              ComputeSafety(actions[SharedAgent], incidents[SharedAgent]), "consistency")
    /\ UNCHANGED <<agents, actions, incidents, response, direct, act, now, crew, req, stream>>

ThreadConsistency(t) ==
    /\ threads[t].pc = "consistency"
    /\ Scored(t, "consistency", ComputeConsistency(actions[SharedAgent]), "efficiency")
    /\ UNCHANGED <<agents, actions, incidents, response, direct, act, now, crew, req, stream>>

ThreadEfficiency(t) ==
    /\ threads[t].pc = "efficiency"
    /\ Scored(t, "efficiency", ComputeEfficiency(agents, actions, SharedAgent),
              "transparency")
    /\ UNCHANGED <<agents, actions, incidents, response, direct, act, now, crew, req, stream>>

ThreadTransparency(t) ==
    /\ threads[t].pc = "transparency"
    /\ Scored(t, "transparency", ComputeTransparency(actions[SharedAgent]), "write")
    /\ UNCHANGED <<agents, actions, incidents, response, direct, act, now, crew, req, stream>>

\* the overall score, tier and trend, and the assignment of the snapshot
ThreadWrite(t) ==
    /\ threads[t].pc = "write"
    /\ LET sc         == threads[t].scores
           overall    == WeightedOverall(sc.reliability, sc.safety, sc.consistency,
                                         sc.efficiency, sc.transparency)
           prev_score == agents[SharedAgent].reputation.overall_score
       IN  agents' = [agents EXCEPT ![SharedAgent].reputation =
               [overall_score |-> Round2(overall),
                trust_tier    |-> ScoreToTier(overall),
                breakdown     |-> [d \in DOMAIN sc |-> Round2(sc[d])],
                trend         |-> Trend(overall, prev_score),
                last_computed |-> now]]
    /\ threads' = [threads EXCEPT ![t].pc = "stats"]
    /\ UNCHANGED <<actions, incidents, response, direct, act, now, crew, req, stream>>

\* _update_stats, and the handler's return
ThreadUpdateStats(t) ==
    /\ threads[t].pc = "stats"
    /\ agents' = [agents EXCEPT ![SharedAgent].stats =
                      UpdateStats(agents[SharedAgent], actions[SharedAgent],
                                  incidents[SharedAgent])]
    /\ threads' = [threads EXCEPT ![t].pc = "done"]
    /\ response' = Ok
    /\ UNCHANGED <<actions, incidents, direct, act, now, crew, req, stream>>

NextConcurrent ==
    \/ RegisterAgent([category |-> "research"])
    \/ \E t \in Threads, c \in ThreadCalls : ThreadAppend(t, c)
    \/ \E t \in Threads : ThreadBeginRecompute(t)
    \/ \E t \in Threads : ThreadReliability(t)
    \/ \E t \in Threads : ThreadSafety(t)
    \/ \E t \in Threads : ThreadConsistency(t)
    \/ \E t \in Threads : ThreadEfficiency(t)
    \/ \E t \in Threads : ThreadTransparency(t)
    \/ \E t \in Threads : ThreadWrite(t)
    \/ \E t \in Threads : ThreadUpdateStats(t)

SpecConcurrent == Init /\ [][NextConcurrent]_vars

\* ------------------------------------------------------------------------
\* The store's reads among its writes, while time passes
\* ------------------------------------------------------------------------
ReadCategories == {NoCategory, "research"}

NextReads ==
    \/ Tick
    \/ RegisterAgent([category |-> "research"])
    \/ \E a \in AgentIds, d \in ActionInputs : RecordAction(a, d)
    \/ \E a \in AgentIds : ReportIncident([agent_id |-> a, severity |-> "critical"])
    \/ \E a \in AgentIds : GetAgent(a)
    \/ ListAgents
    \/ \E a \in AgentIds, st \in {"None", "success"}, l \in {1, 50} :
           GetActions(a, [status |-> st, limit |-> l, offset |-> 0])
    \/ \E a \in AgentIds, d \in {7, 30} : GetReputationHistory(a, [days |-> d])
    \/ \E a \in AgentIds : GetAgentIncidents(a)
    \/ \E c \in ReadCategories, m \in {NONE, 50000}, k \in {"reputation", "actions"} :
           SearchAgents([category |-> c, min_reputation |-> m, sort_by |-> k,
                         page |-> 1, per_page |-> 20])
    \/ \E c \in ReadCategories : GetLeaderboard([category |-> c, limit |-> 20])
    \/ GetEcosystemStats

SpecReads == Init /\ [][NextReads]_vars

\* ------------------------------------------------------------------------
\* _score_to_tier called on its own
\* ------------------------------------------------------------------------
\* scores 0.00, 0.01, ..., 100.00
TierScores == { 10 * n : n \in 0..10000 }

InitTier ==
    /\ agents = <<>>
    /\ actions = [a \in AgentIds |-> <<>>]
    /\ incidents = [a \in AgentIds |-> <<>>]
    /\ response = [status |-> "none"]
    /\ tierArg \in TierScores
    /\ tierRes = "none"
    /\ relArg = <<>>
    /\ relRes = NONE
    /\ act = NoActionObject
    /\ now = 0
    /\ threads = [t \in Threads |-> IdleThread]
    /\ crew = NoKickoff
    /\ req = NoRequest
    /\ stream = NoStream

ScoreToTierCall ==
    /\ tierRes = "none"
    /\ tierRes' = ScoreToTier(tierArg)
    /\ UNCHANGED <<agents, actions, incidents, response, tierArg, relArg, relRes, act, now,
                   threads, crew, req, stream>>

NextTier == ScoreToTierCall

SpecTier == InitTier /\ [][NextTier]_vars

\* ------------------------------------------------------------------------
\* _compute_reliability called on its own
\* ------------------------------------------------------------------------
\* the longest action list handed to the scorer
MaxTotal == 101

\* an action list of the given length whose first s actions are success or
\* partial and whose other actions are failed or error
StatusList(total, s) ==
    [i \in 1..total |->
        [status |-> IF i <= s THEN (IF i % 2 = 1 THEN "success" ELSE "partial")
                    ELSE (IF i % 2 = 1 THEN "failed" ELSE "error")]]

InitReliability ==
    /\ agents = <<>>
    /\ actions = [a \in AgentIds |-> <<>>]
    /\ incidents = [a \in AgentIds |-> <<>>]
    /\ response = [status |-> "none"]
    /\ tierArg = NONE
    /\ tierRes = "none"
    /\ \E total \in 1..MaxTotal, s \in 0..MaxTotal :
           s <= total /\ relArg = StatusList(total, s)
    /\ relRes = NONE
    /\ act = NoActionObject
    /\ now = 0
    /\ threads = [t \in Threads |-> IdleThread]
    /\ crew = NoKickoff
    /\ req = NoRequest
    /\ stream = NoStream

ReliabilityCall ==
    /\ relRes = NONE
    /\ relRes' = ComputeReliability(relArg)
    /\ UNCHANGED <<agents, actions, incidents, response, tierArg, tierRes, relArg, act, now,
                   threads, crew, req, stream>>

NextReliability == ReliabilityCall

SpecReliability == InitReliability /\ [][NextReliability]_vars

\* ------------------------------------------------------------------------
\* Properties
\* ------------------------------------------------------------------------
\* a record-action call for agent a has appended its action in this step
RecordedFor(a) == Len(actions'[a]) = Len(actions[a]) + 1

\* a report-incident call against agent a has appended its incident in this step
ReportedFor(a) == Len(incidents'[a]) = Len(incidents[a]) + 1

\* a step that has appended a record for agent a or has rewritten its stored
\* snapshot: every step in which _recompute_reputation has changed anything
RecomputeStep(a) ==
    \/ RecordedFor(a)
    \/ ReportedFor(a)
    \/ agents'[a].reputation # agents[a].reputation

InRange(x) == 0 <= x /\ x <= 100000

\* the overall score of agent a before round(, 2), from the records given
UnroundedOverall(ag, acts, incs, a) ==
    WeightedOverall(ComputeReliability(acts[a]), ComputeSafety(acts[a], incs[a]),
                    ComputeConsistency(acts[a]), ComputeEfficiency(ag, acts, a),
                    ComputeTransparency(acts[a]))

\* C1: every stored overall score and every stored dimension score of every
\* agent lies in [0, 100].
ScoresInRange ==
    \A a \in DOMAIN agents :
        /\ InRange(agents[a].reputation.overall_score)
        /\ InRange(agents[a].reputation.breakdown.reliability)
        /\ InRange(agents[a].reputation.breakdown.safety)
        /\ InRange(agents[a].reputation.breakdown.consistency)
        /\ InRange(agents[a].reputation.breakdown.efficiency)
        /\ InRange(agents[a].reputation.breakdown.transparency)

\* C1 witness: an agent whose incidents outweigh its actions, so that the
\* safety formula is below 0 and the stored safety is the clamp's 0.
ScoresInRangeWitness ==
    \E a \in DOMAIN agents :
        /\ actions[a] # <<>>
        /\ ComputeSafetyUnclamped(actions[a], incidents[a]) < 0
        /\ agents[a].reputation.breakdown.safety = 0

\* C2: an agent without actions has the default snapshot: overall 50,
\* reliability 50, safety 100, consistency 50, efficiency 50, transparency 50,
\* tier Unverified, trend stable.
ZeroActionsDefault ==
    \A a \in DOMAIN agents :
        actions[a] = <<>> =>
            /\ agents[a].reputation.overall_score = 50000
            /\ agents[a].reputation.breakdown.reliability = 50000
            /\ agents[a].reputation.breakdown.safety = 100000
            /\ agents[a].reputation.breakdown.consistency = 50000
            /\ agents[a].reputation.breakdown.efficiency = 50000
            /\ agents[a].reputation.breakdown.transparency = 50000
            /\ agents[a].reputation.trust_tier = "Unverified"
            /\ agents[a].reputation.trend = "stable"

\* C2 witness: an agent without actions against which an incident has been
\* reported, so that a recompute has run for it.
ZeroActionsDefaultWitness ==
    \E a \in DOMAIN agents :
        /\ actions[a] = <<>>
        /\ incidents[a] # <<>>
        /\ agents[a].stats.incidents = Len(incidents[a])

\* the stored snapshot and stats of agent a are those of the records given
StoredIsCurrent(ag, acts, incs, a) ==
    /\ acts[a] # <<>> =>
        /\ ag[a].reputation.breakdown.reliability = Round2(ComputeReliability(acts[a]))
        /\ ag[a].reputation.breakdown.safety = Round2(ComputeSafety(acts[a], incs[a]))
        /\ ag[a].reputation.breakdown.consistency = Round2(ComputeConsistency(acts[a]))
        /\ ag[a].reputation.breakdown.efficiency = Round2(ComputeEfficiency(ag, acts, a))
        /\ ag[a].reputation.breakdown.transparency = Round2(ComputeTransparency(acts[a]))
        /\ ag[a].reputation.overall_score = Round2(UnroundedOverall(ag, acts, incs, a))
    /\ ag[a].stats.total_actions = Len(acts[a])
    /\ ag[a].stats.incidents = Len(incs[a])

\* C3: when a record-action or report-incident call returns, the agent's
\* stored scores and stats are those of its records including the new one;
\* a read recomputes nothing.
WriteRecomputes ==
    [][ /\ \A a \in DOMAIN agents :
              (RecordedFor(a) \/ ReportedFor(a)) =>
                  StoredIsCurrent(agents', actions', incidents', a)
        /\ \A a \in AgentIds : GetAgent(a) => agents' = agents ]_vars

\* C3 witness: an agent with two actions and an incident whose stored safety
\* shows the incident.
WriteRecomputesWitness ==
    \E a \in DOMAIN agents :
        /\ Len(actions[a]) = 2
        /\ incidents[a] # <<>>
        /\ agents[a].stats.total_actions = 2
        /\ agents[a].reputation.breakdown.safety < 100000

Costed(acts, a) == CostsOf(acts[a]) # <<>>

MeanCost(acts, a) == Mean100(CostsOf(acts[a]))

\* the agents of a's category that have costed success/partial actions
CostedInCategory(ag, acts, a) ==
    { b \in DOMAIN ag : ag[b].category = ag[a].category /\ Costed(acts, b) }

\* C6 as claimed: of two agents of one category with costed actions, the one
\* with the lower mean cost has a stored efficiency above 50 and the other
\* one below 50.
CheaperAbove50DearerBelow ==
    \A a \in DOMAIN agents, b \in DOMAIN agents :
        ( /\ a # b
          /\ agents[a].category = agents[b].category
          /\ Costed(actions, a) /\ Costed(actions, b)
          /\ MeanCost(actions, a) < MeanCost(actions, b) )
        => /\ agents[a].reputation.breakdown.efficiency > 50000
           /\ agents[b].reputation.breakdown.efficiency < 50000

\* a and b are the two costed agents of their category and their mean costs
\* differ by more than rounding to two decimals takes away
TwoCostedPeers(ag, acts, a, b) ==
    /\ a # b
    /\ CostedInCategory(ag, acts, a) = {a, b}
    /\ \A n \in 1..Len(acts[a]) : acts[a][n].cost_usd = NONE \/ acts[a][n].cost_usd >= 0
    /\ \A n \in 1..Len(acts[b]) : acts[b][n].cost_usd = NONE \/ acts[b][n].cost_usd >= 0
    /\ LET ma == MeanCost(acts, a)
           mb == MeanCost(acts, b)
       IN  (IF ma < mb THEN mb - ma ELSE ma - mb) * 10000 > ma + mb

\* C6 as amended: a recompute of an agent that runs when it and one peer are
\* the costed agents of their category stores an efficiency above 50 if its
\* mean cost is the lower one and below 50 if it is the higher one.
RecomputedCheaperAbove50 ==
    [][ \A a \in DOMAIN agents, b \in DOMAIN agents :
            (RecomputeStep(a) /\ TwoCostedPeers(agents', actions', a, b)) =>
                /\ MeanCost(actions', a) < MeanCost(actions', b)
                       => agents'[a].reputation.breakdown.efficiency > 50000
                /\ MeanCost(actions', a) > MeanCost(actions', b)
                       => agents'[a].reputation.breakdown.efficiency < 50000 ]_vars

\* C6 witness: two costed agents of one category, the cheaper one above 50
\* and the dearer one below 50.
RecomputedCheaperAbove50Witness ==
    \E a \in DOMAIN agents, b \in DOMAIN agents :
        /\ TwoCostedPeers(agents, actions, a, b)
        /\ MeanCost(actions, a) < MeanCost(actions, b)
        /\ agents[a].reputation.breakdown.efficiency > 50000
        /\ agents[b].reputation.breakdown.efficiency < 50000

\* the efficiency the claim states, with category_avg taken over peers
ClaimedEfficiency(acts, a, peers) ==
    IF ~Costed(acts, a) \/ peers = {} THEN 50000
    ELSE LET agent_avg    == MeanCost(acts, a)
             category_avg == DivRound(SumOver([b \in peers |-> MeanCost(acts, b)], peers),
                                      Cardinality(peers))
         IN  IF category_avg = 0 THEN 50000
             ELSE Max(0, Min(100000,
                      50000 + 50000 - DivRound(50000 * agent_avg, category_avg)))

ClaimedTier(score) ==
    CASE score >= 90000 -> "Platinum"
      [] score >= 75000 /\ score < 90000 -> "Gold"
      [] score >= 60000 /\ score < 75000 -> "Silver"
      [] score >= 40000 /\ score < 60000 -> "Bronze"
      [] score < 40000 -> "Unverified"

TierBoundaries ==
    tierRes # "none" =>
        /\ tierRes = "Platinum" <=> tierArg >= 90000
        /\ tierRes = "Gold" <=> (tierArg >= 75000 /\ tierArg < 90000)
        /\ tierRes = "Silver" <=> (tierArg >= 60000 /\ tierArg < 75000)
        /\ tierRes = "Bronze" <=> (tierArg >= 40000 /\ tierArg < 60000)
        /\ tierRes = "Unverified" <=> tierArg < 40000
        /\ tierArg = 90000 => tierRes = "Platinum"
        /\ tierArg = 89990 => tierRes = "Gold"
        /\ tierArg = 75000 => tierRes = "Gold"
        /\ tierArg = 59990 => tierRes = "Bronze"
        /\ tierArg = 39990 => tierRes = "Unverified"

\* C9 witness: the mapping has been applied to 89.99 and has returned Gold.
TierBoundariesWitness == tierArg = 89990 /\ tierRes = "Gold"

\* C10: a recompute of an agent with actions stores the trend improving iff
\* the new overall score is more than 2 above the prior stored one, declining
\* iff it is more than 2 below it, and stable otherwise.
TrendOfRecompute ==
    [][ \A a \in DOMAIN agents :
            (RecomputeStep(a) /\ actions'[a] # <<>>) =>
                LET new  == UnroundedOverall(agents', actions', incidents', a)
                    prev == agents[a].reputation.overall_score
                IN  /\ agents'[a].reputation.trend = "improving" <=> new - prev > 2000
                    /\ agents'[a].reputation.trend = "declining" <=> prev - new > 2000
                    /\ agents'[a].reputation.trend = "stable"
                           <=> (new - prev <= 2000 /\ prev - new <= 2000) ]_vars

\* C10 witness: an agent with two actions whose last recompute fell by more
\* than 2 points.
TrendOfRecomputeWitness ==
    \E a \in DOMAIN agents :
        /\ Len(actions[a]) = 2
        /\ agents[a].reputation.trend = "declining"

\* the number of success/partial actions of the list handed to the scorer
Successes(acts) == Cardinality({ i \in 1..Len(acts) : acts[i].status \in {"success", "partial"} })

\* 100 * s / total
RawRate(s, total) == DivRound(s * 100000, total)

\* C11: for a list of total >= 1 actions with s successes, reliability does
\* not fall when one more action of the list is a success, equals 100*s/total
\* when total >= 100, and for total < 100 lies between 50 and 100*s/total,
\* strictly when 100*s/total is not 50.
ReliabilityShape ==
    relRes # NONE =>
        LET total == Len(relArg)
            s     == Successes(relArg)
            raw   == RawRate(s, total)
        IN  /\ s < total => relRes <= ComputeReliability(StatusList(total, s + 1))
            /\ total >= 100 => relRes = raw
            /\ total < 100 =>
                   /\ raw > 50000 => (50000 < relRes /\ relRes < raw)
                   /\ raw < 50000 => (raw < relRes /\ relRes < 50000)
                   /\ raw = 50000 => relRes = 50000

\* C11 witness: the scorer has returned 100*s/total for a list of 100 actions
\* of which 37 are success or partial.
ReliabilityShapeWitness ==
    /\ Len(relArg) = 100
    /\ Successes(relArg) = 37
    /\ relRes = 37000

\* C12: the overall score a recompute writes for an agent with actions is
\* reliability*0.30 + safety*0.25 + consistency*0.20 + efficiency*0.15 +
\* transparency*0.10 of the five dimension values of that recompute, clamped
\* to [0, 100] and rounded to two decimals.
OverallIsWeightedSum ==
    [][ \A a \in DOMAIN agents :
            (RecomputeStep(a) /\ actions'[a] # <<>>) =>
                LET reliability  == ComputeReliability(actions'[a])
                    safety       == ComputeSafety(actions'[a], incidents'[a])
                    consistency  == ComputeConsistency(actions'[a])
                    efficiency   == ComputeEfficiency(agents', actions', a)
                    transparency == ComputeTransparency(actions'[a])
                    sum100       == 30 * reliability + 25 * safety + 20 * consistency
                                    + 15 * efficiency + 10 * transparency
                IN  agents'[a].reputation.overall_score
                        = Round2(Max(0, Min(100000, (2 * sum100 + 100) \div 200))) ]_vars

\* C12 witness: an agent with actions whose stored safety and efficiency have
\* left their defaults and whose stored overall differs from every one of its
\* five stored dimension scores.
OverallIsWeightedSumWitness ==
    \E a \in DOMAIN agents :
        /\ actions[a] # <<>>
        /\ agents[a].reputation.breakdown.safety \notin {0, 100000}
        /\ agents[a].reputation.breakdown.efficiency \notin {0, 50000, 100000}
        /\ \A k \in DOMAIN agents[a].reputation.breakdown :
               agents[a].reputation.breakdown[k] # agents[a].reputation.overall_score

\* the first success(), fail() or partial() on the Action object happens in
\* this step
FirstCall == act.called = "none" /\ act'.called # "none"

\* C13: an operation addressed to an agent id that is not registered raises
\* a not-found error, returns no default or placeholder result and leaves the
\* store unchanged; here for success(), fail() and partial() of an Action in
\* local and in HTTP mode, whenever they send their request.
UnknownAgentIsNotFound ==
    [][ (FirstCall /\ act'.request = "POST" /\ act.agent_id \notin DOMAIN agents) =>
            /\ act'.raised = "NotFoundError"
            /\ act'.action_response = NONE
            /\ <<agents, actions, incidents>>' = <<agents, actions, incidents>> ]_vars

\* a step of one of the store's read handlers
ReadStep ==
    \/ \E a \in AgentIds : GetAgent(a)
    \/ ListAgents
    \/ \E a \in AgentIds, st \in {"None", "success"}, l \in {1, 50} :
           GetActions(a, [status |-> st, limit |-> l, offset |-> 0])
    \/ \E a \in AgentIds, d \in {7, 30} : GetReputationHistory(a, [days |-> d])
    \/ \E a \in AgentIds : GetAgentIncidents(a)
    \/ \E c \in ReadCategories, m \in {NONE, 50000}, k \in {"reputation", "actions"} :
           SearchAgents([category |-> c, min_reputation |-> m, sort_by |-> k,
                         page |-> 1, per_page |-> 20])
    \/ \E c \in ReadCategories : GetLeaderboard([category |-> c, limit |-> 20])
    \/ GetEcosystemStats

\* C14: a read (get agent, list agents, get actions, reputation history, get
\* incidents, search, leaderboard, ecosystem stats) leaves every agent's
\* profile (snapshot with its computed-at and trend, stats), action list and
\* incident list as they were, and a profile fetch that follows a profile
\* fetch of the same agent, whatever reads and time lie between, returns the
\* same profile.
ReadsChangeNothing ==
    [][ /\ ReadStep => <<agents, actions, incidents>>' = <<agents, actions, incidents>>
        /\ \A a \in DOMAIN agents :
               (response = OkWith(<<agents[a]>>) /\ GetAgent(a)) => response' = response
      ]_vars

\* the profile of an agent whose trend a recompute would reset has been
\* fetched, at a time later than its snapshot's computed-at
ReadsChangeNothingWitness ==
    \E a \in DOMAIN agents :
        /\ response = OkWith(<<agents[a]>>)
        /\ agents[a].reputation.trend # "stable"
        /\ agents[a].reputation.last_computed < now
        /\ actions[a] # <<>>
        /\ incidents[a] # <<>>

\* every thread that has called the store has returned, and two have
BothReturned ==
    /\ \A t \in Threads : threads[t].pc \in {"idle", "done"}
    /\ Cardinality({t \in Threads : threads[t].pc = "done"}) >= 2

\* the snapshot and stats two returned calls leave behind are those of the
\* lists as they then are
SnapshotAfterBothIsCurrent ==
    BothReturned => StoredIsCurrent(agents, actions, incidents, SharedAgent)

\* C15: two record-action or report-incident calls of two threads for one
\* agent do not interleave their append-then-recompute sequences: a recompute
\* about to write its snapshot has read the same lists for all five
\* dimensions, and once both calls have returned the stored snapshot and
\* stats are those of the lists holding both new records.
CallsOfOneAgentAreSerialized ==
    /\ \A t \in Threads : threads[t].pc = "write" => Cardinality(threads[t].seen) = 1
    /\ SnapshotAfterBothIsCurrent

\* a record-action, rate-action or report-incident call for agent a has acted
\* in this step
WroteFor(a) ==
    \/ actions'[a] # actions[a]
    \/ incidents'[a] # incidents[a]
    \/ agents'[a].reputation # agents[a].reputation
    \/ agents'[a].stats # agents[a].stats

\* C16: recording an action, rating an action or reporting an incident for
\* agent a leaves the profile (snapshot, stats), the action list and the
\* incident list of every other agent b as they were, also when b is of a's
\* category.
OtherAgentsUntouched ==
    [][ \A a \in DOMAIN agents : WroteFor(a) =>
            \A b \in AgentIds \ {a} :
                /\ b \in DOMAIN agents => agents'[b] = agents[b]
                /\ actions'[b] = actions[b]
                /\ incidents'[b] = incidents[b] ]_vars

\* C16 witness: an agent has been written to while another agent of its
\* category, with costed actions of its own, keeps an efficiency that is no
\* longer the one its records would give.
OtherAgentsUntouchedWitness ==
    \E a, b \in DOMAIN agents :
        /\ a # b
        /\ agents[a].category = agents[b].category
        /\ CostsOf(actions[a]) # <<>>
        /\ CostsOf(actions[b]) # <<>>
        /\ agents[a].reputation.breakdown.efficiency =
               Round2(ComputeEfficiency(agents, actions, a))
        /\ agents[b].reputation.breakdown.efficiency #
               Round2(ComputeEfficiency(agents, actions, b))

\* the history entry that shows agent a's stored snapshot and its action count
SnapshotEntry(a) ==
    [overall_score     |-> agents[a].reputation.overall_score,
     breakdown         |-> agents[a].reputation.breakdown,
     trust_tier        |-> agents[a].reputation.trust_tier,
     actions_in_window |-> Len(actions[a]),
     computed_at       |-> agents[a].reputation.last_computed]

ExpectedStatus ==
    IF act.called # "none" THEN act.called
    ELSE IF act.exc THEN "error"
    ELSE "success"

\* C18: an Action context that has been entered and exited has left exactly
\* one action record for its agent: with the status of the success(), fail() or
\* partial() called on it, else 'error' if the block raised, else 'success'.
\* Stated for the contexts of a LocalStore on an agent registered when the
\* context was made, where every request is served at once.
ExitedContextHasOneRecord ==
    (act.state = "exited" /\ act.mode = "local" /\ act.known) =>
        /\ Len(actions[act.agent_id]) = act.base + 1
        /\ actions[act.agent_id][act.base + 1].status = ExpectedStatus

RateNeedsRecordedAction ==
    [][ ((\E r \in Ratings : Rate([rating |-> r]))
            /\ Len(actions[act.agent_id]) = act.base) =>
                /\ act'.raised = "ActionError"
                /\ act'.request = "none" ]_vars

\* C21: in HTTP mode a first success(), fail() or partial() that has sent its
\* POST raises nothing and leaves the Action marked recorded; when the
\* backend has recorded nothing by the time the call returns (the POST has
\* raised, or is still under way after the wait), the call's response is the
\* stub 'act_pending' with the status reported.
HttpFailureGivesStub ==
    [][ (FirstCall /\ act.mode = "http" /\ act'.request = "POST") =>
            /\ act'.raised = "none"
            /\ act'.recorded
            /\ actions' = actions =>
                   /\ act'.action_response = ActPending
                   /\ act'.response_status = act'.called ]_vars

\* C21 witness: a fail() in HTTP mode whose POST was still under way has
\* returned the stub with status 'failed'.
HttpFailureGivesStubWitness ==
    /\ act.mode = "http"
    /\ act.called = "failed"
    /\ act.pending # <<>>
    /\ act.action_response = ActPending
    /\ act.response_status = "failed"
    /\ act.raised = "none"

\* C27: an Action object calls its client's post for /agents/{id}/actions at
\* most once in its lifetime, and its agent gains at most one action record
\* from it.
AtMostOnePost ==
    /\ act.posts <= 1
    /\ act.state # "none" => Len(actions[act.agent_id]) <= act.base + 1

\* the agent of the i-th role has exactly one action more than when the
\* kickoff call began, of the status given
OneRecordOf(i, status) ==
    LET obj == crew.objs[i]
    IN  /\ Len(actions[obj.agent_id]) = obj.base + 1
        /\ actions[obj.agent_id][obj.base + 1].status = status

\* C22: a kickoff call that has ended has recorded exactly one action for
\* every mapped agent: all 'success' and the call has returned when the crew's
\* kickoff returned; all 'failed' and the call has raised when the crew's
\* kickoff raised.  Stated for agents of a LocalStore, where every request is
\* served at once.
KickoffRecordsOneEach ==
    (crew.pc = "done" /\ \A i \in 1..Len(crew.objs) : crew.objs[i].mode = "local") =>
        /\ crew.ended = crew.outcome
        /\ \A i \in 1..Len(crew.objs) :
               OneRecordOf(i, IF crew.outcome = "returned" THEN "success" ELSE "failed")

\* what a request may be sent again after: 429, 5xx, a connection error, a
\* timeout
Retryable(reply) ==
    \/ reply.kind = "response" /\ (reply.code = 429 \/ reply.code >= 500)
    \/ reply.kind \in {"ConnectError", "TimeoutException"}

\* the subclasses of ProtolError that _request raises
ProtolErrors ==
    {"AuthenticationError", "NotFoundError", "ValidationError", "RateLimitError",
     "ServerError", "NetworkError"}

\* C23: a _request call sends at most max_retries + 1 requests and ends with
\* a result or a ProtolError; every request but the last one of the call has
\* met a 429, a 5xx, a connection error or a timeout, so that any other error
\* response (401, 404, 422, any other 4xx) ends the call with that request.
RetriesOnlyWhenRetryable ==
    /\ Len(req.log) <= DEFAULT_MAX_RETRIES + 1
    /\ req.pc = "done" => req.result \in {"json", "None"} \cup ProtolErrors
    /\ req.pc = "sending" => Len(req.log) <= DEFAULT_MAX_RETRIES
    /\ \A i \in 1..Len(req.log) :
           (i < Len(req.log) \/ req.pc = "sending") => Retryable(req.log[i])

ChangedActions(a) == { i \in 1..Len(actions[a]) : actions'[a][i] # actions[a][i] }

\* the record but for its rating (and the feedback assigned with it)
Unrated(action) == [action EXCEPT !.commissioner_rating = NONE]

\* C25: no step removes, reorders or reassigns a stored action or incident,
\* the lists never get shorter, and a step changes at most one stored action,
\* and of it nothing but the rating.
ListsAreAppendOnly ==
    [][ \A a \in AgentIds :
            /\ Len(actions'[a]) >= Len(actions[a])
            /\ Len(incidents'[a]) >= Len(incidents[a])
            /\ SubSeq(incidents'[a], 1, Len(incidents[a])) = incidents[a]
            /\ \A i \in 1..Len(actions[a]) : Unrated(actions'[a][i]) = Unrated(actions[a][i])
            /\ Cardinality(ChangedActions(a)) <= 1
            /\ ChangedActions(a) # {} =>
                   /\ Len(actions'[a]) = Len(actions[a])
                   /\ incidents' = incidents
                   /\ \A b \in AgentIds \ {a} : actions'[b] = actions[b] ]_vars

\* a rated action stored before a later action and an incident
ListsAreAppendOnlyWitness ==
    \E a \in DOMAIN agents :
        /\ Len(actions[a]) = 2
        /\ actions[a][1].commissioner_rating # NONE
        /\ actions[a][1].status = "failed"
        /\ actions[a][2].commissioner_rating = NONE
        /\ incidents[a] # <<>>

\* the step is a rate-action call that has found its action, of agent a
RatedActionOf(a) == ChangedActions(a) # {}

\* the snapshot without its computed-at timestamp
Undated(reputation) == [reputation EXCEPT !.last_computed = 0]

\* C26: a rate-action call leaves the stored reputation of the agent as it
\* was (overall score, the five dimension scores, tier and trend); of the
\* profiles it changes nothing but the agent's stats.avg_rating.
RatingKeepsReputation ==
    [][ \A a \in DOMAIN agents :
            RatedActionOf(a) =>
                /\ Undated(agents'[a].reputation) = Undated(agents[a].reputation)
                /\ [agents'[a].stats EXCEPT !.avg_rating = NONE] =
                       [agents[a].stats EXCEPT !.avg_rating = NONE]
                /\ \A b \in DOMAIN agents \ {a} : agents'[b] = agents[b] ]_vars

\* C28: a registration adds an agent under an identifier no registered agent
\* has: there is one agent more after it, every profile there was is still
\* the same, and the new agent has no actions and no incidents.
RegistrationAddsNewAgent ==
    [][ \A agent_id \in AgentIds, c \in Categories :
            RegisterAgentWithId(agent_id, [category |-> c]) =>
                /\ agent_id \notin DOMAIN agents
                /\ Cardinality(DOMAIN agents') = Cardinality(DOMAIN agents) + 1
                /\ \A a \in DOMAIN agents : agents'[a] = agents[a]
                /\ actions'[agent_id] = <<>>
                /\ incidents'[agent_id] = <<>> ]_vars

\* the store holds one record more for the generator's agent than when its
\* Action was made
OneRecordOfStream ==
    Len(actions[stream.obj.agent_id]) = stream.obj.base + 1

\* C29: a started generator of stream() has yielded the wrapped stream's
\* chunks in order, and when it has terminated exactly one action is
\* recorded: with status success when the stream was exhausted, failed when
\* it raised, and one action also when the consumer has closed the generator.
StreamRecordsOneAction ==
    /\ stream.chunks = SubSeq(stream.source.chunks, 1, Len(stream.chunks))
    /\ (stream.pc = "done" /\ stream.obj.mode = "local") =>
           /\ OneRecordOfStream
           /\ stream.ended # "closed" => stream.chunks = stream.source.chunks
           /\ stream.ended = "returned" =>
                  actions[stream.obj.agent_id][stream.obj.base + 1].status = "success"
           /\ stream.ended = "raised" =>
                  actions[stream.obj.agent_id][stream.obj.base + 1].status = "failed"

\* the agents that pass the category filter of q and have at least one of its
\* capabilities
Matching(q) ==
    SelectSeq(AgentValues, LAMBDA a :
        /\ q.category = NoCategory \/ a.category = q.category
        /\ \E i \in 1..Len(q.capabilities) : q.capabilities[i] \in a.capabilities)

\* C30: a local search with a list of one or more capabilities returns
\* agents that match (the category, and at least one of the capabilities),
\* as many as the page holds of them; total is the number of matching agents
\* and has_more says whether there are some beyond the page.
SearchFindsAnyCapability ==
    [][ \A q \in Queries :
            (q.capabilities # <<>> /\ ClientSearchAgents(q)) =>
                LET found == response'.body[1]
                    m     == Matching(q)
                    start == (q.page - 1) * q.per_page
                IN  /\ found.total = Len(m)
                    /\ found.has_more = (start + q.per_page < Len(m))
                    /\ Len(found.agents) = Max(0, Min(Len(m) - start, q.per_page))
                    /\ \A i \in 1..Len(found.agents) :
                           \E j \in 1..Len(m) : found.agents[i] = m[j] ]_vars

====
